---------------------------- MODULE Spec2Model ----------------------------
(***************************************************************************)
(* A model of todo.py: the task store (TaskManager), the input validator   *)
(* (TaskValidator) and the JSON persistence (FileHandler).                 *)
(*                                                                         *)
(* Text is a sequence of one-character strings.  A Python value is a       *)
(* record [k, v]: k names the type and v carries the value.  A dict is the *)
(* insertion-ordered sequence of its <<key, value>> pairs.  A file is      *)
(* [exists, content] where content is the sequence of JSON tokens in it    *)
(* (the lexical layer, i.e. indentation and string escapes, is inside the  *)
(* tokens).                                                                *)
(***************************************************************************)
EXTENDS Integers, Sequences, FiniteSets, TLC

(***************************************************************************)
(* Bounds of the model.                                                    *)
(***************************************************************************)
\* add_task is disabled once this many tasks are in the list
MaxTasks == 2
\* add_task is disabled once it has run this many times
MaxAdds == 2
\* longest token sequence of the enumerated backing files
MaxFileLen == 3

\* The longest collection the views are checked on
MaxViewTasks == 3

(***************************************************************************)
(* Characters and text.                                                    *)
(***************************************************************************)
Digits == {"0", "1", "2", "3", "4", "5", "6", "7", "8", "9"}

Letters == {"a", "b", "Z"}

Whitespace == {" ", "\t"}

DigitValue(c) ==
    CASE c = "0" -> 0 [] c = "1" -> 1 [] c = "2" -> 2 [] c = "3" -> 3
      [] c = "4" -> 4 [] c = "5" -> 5 [] c = "6" -> 6 [] c = "7" -> 7
      [] c = "8" -> 8 [] c = "9" -> 9

\* str.strip(): drop leading and trailing whitespace
RECURSIVE lstrip(_)
lstrip(s) ==
    IF s # <<>> /\ Head(s) \in Whitespace THEN lstrip(Tail(s)) ELSE s

RECURSIVE rstrip(_)
rstrip(s) ==
    IF s # <<>> /\ s[Len(s)] \in Whitespace
    THEN rstrip(SubSeq(s, 1, Len(s) - 1))
    ELSE s

strip(s) == rstrip(lstrip(s))

\* re.match(r"^[A-Za-z0-9 ]{1,20}$", value)
NameLimit == 20

NameRegexMatches(value) ==
    /\ Len(value) >= 1
    /\ Len(value) <= NameLimit
    /\ \A i \in 1..Len(value) : value[i] \in Letters \cup Digits \cup {" "}

\* re.search(r"[A-Za-z0-9]", value)
DescRegexFound(value) ==
    \E i \in 1..Len(value) : value[i] \in Letters \cup Digits

\* One pass of validate_input's loop: TRUE when the stripped value is returned,
\* FALSE when the loop prints an error and prompts again.
validate_input(value, is_taskname, is_description) ==
    /\ value # <<>>
    /\ is_taskname => NameRegexMatches(value)
    /\ is_description => DescRegexFound(value)

\* int(text): an optional sign and decimal digits; anything else is a ValueError
RECURSIVE DigitsValue(_, _)
DigitsValue(s, acc) ==
    IF s = <<>> THEN acc ELSE DigitsValue(Tail(s), 10 * acc + DigitValue(Head(s)))

int(text) ==
    LET signed == text # <<>> /\ Head(text) \in {"+", "-"}
        body   == IF signed THEN Tail(text) ELSE text
        ok     == body # <<>> /\ \A i \in 1..Len(body) : body[i] \in Digits
        mag    == IF ok THEN DigitsValue(body, 0) ELSE 0
    IN  [ok |-> ok,
         val |-> IF signed /\ Head(text) = "-" THEN 0 - mag ELSE mag]

(***************************************************************************)
(* Python values.                                                          *)
(***************************************************************************)
PyNone == [k |-> "none", v |-> 0]

PyInt(n) == [k |-> "int", v |-> n]

\* True is 1 and False is 0
PyBool(n) == [k |-> "bool", v |-> n]

PyStr(s) == [k |-> "str", v |-> s]

PyList(xs) == [k |-> "list", v |-> xs]

PyDict(pairs) == [k |-> "dict", v |-> pairs]

K_taskid == <<"t", "a", "s", "k", "i", "d">>

K_taskname == <<"t", "a", "s", "k", "n", "a", "m", "e">>

K_description == <<"d", "e", "s", "c", "r", "i", "p", "t", "i", "o", "n">>

K_status == <<"s", "t", "a", "t", "u", "s">>

\* TaskStatus
PENDING == 0

IN_PROGRESS == 1

COMPLETED == 2

HasKey(d, key) == \E i \in 1..Len(d.v) : d.v[i][1] = key

\* d[key]
Get(d, key) == d.v[CHOOSE i \in 1..Len(d.v) : d.v[i][1] = key][2]

\* d[key] = val; a new key goes to the end, an existing key keeps its place
Put(d, key, val) ==
    IF HasKey(d, key)
    THEN PyDict([i \in 1..Len(d.v) |->
                    IF d.v[i][1] = key THEN <<key, val>> ELSE d.v[i]])
    ELSE PyDict(Append(d.v, <<key, val>>))

\* a == b on the values of this model (dicts compare without regard to order)
RECURSIVE PyEq(_, _)
PyEq(a, b) ==
    IF a.k \in {"int", "bool"} /\ b.k \in {"int", "bool"} THEN a.v = b.v
    ELSE IF a.k # b.k THEN FALSE
    ELSE IF a.k = "dict" THEN
        /\ Len(a.v) = Len(b.v)
        /\ \A i \in 1..Len(a.v) :
              /\ HasKey(b, a.v[i][1])
              /\ PyEq(a.v[i][2], Get(b, a.v[i][1]))
    ELSE IF a.k = "list" THEN
        /\ Len(a.v) = Len(b.v)
        /\ \A i \in 1..Len(a.v) : PyEq(a.v[i], b.v[i])
    ELSE a.v = b.v

(***************************************************************************)
(* JSON: tokens, json.dump and json.load.                                  *)
(***************************************************************************)
Punct(c) == [t |-> "p", v |-> c]

TInt(n) == [t |-> "int", v |-> n]

TStr(s) == [t |-> "str", v |-> s]

TNull == [t |-> "null", v |-> 0]

TTrue == [t |-> "true", v |-> 1]

TFalse == [t |-> "false", v |-> 0]

IsPunct(tk, c) == tk.t = "p" /\ tk.v = c

\* json.dump(value): the tokens written for a value
RECURSIVE json_dump(_)
RECURSIVE DumpItems(_, _)
RECURSIVE DumpPairs(_, _)
json_dump(x) ==
    IF x.k = "none" THEN <<TNull>>
    ELSE IF x.k = "int" THEN <<TInt(x.v)>>
    ELSE IF x.k = "bool" THEN (IF x.v = 1 THEN <<TTrue>> ELSE <<TFalse>>)
    ELSE IF x.k = "str" THEN <<TStr(x.v)>>
    ELSE IF x.k = "list" THEN <<Punct("[")>> \o DumpItems(x.v, 1) \o <<Punct("]")>>
    ELSE <<Punct("{")>> \o DumpPairs(x.v, 1) \o <<Punct("}")>>

DumpItems(xs, i) ==
    IF i > Len(xs) THEN <<>>
    ELSE (IF i > 1 THEN <<Punct(",")>> ELSE <<>>)
         \o json_dump(xs[i]) \o DumpItems(xs, i + 1)

DumpPairs(ps, i) ==
    IF i > Len(ps) THEN <<>>
    ELSE (IF i > 1 THEN <<Punct(",")>> ELSE <<>>)
         \o <<TStr(ps[i][1]), Punct(":")>> \o json_dump(ps[i][2])
         \o DumpPairs(ps, i + 1)

\* The result of parsing one value at position i: ok is FALSE for a
\* JSONDecodeError, next is the position after the value.
ParseError == [ok |-> FALSE, val |-> PyNone, next |-> 0]

Parsed(x, n) == [ok |-> TRUE, val |-> x, next |-> n]

RECURSIVE ParseValue(_, _)
RECURSIVE ParseItems(_, _, _)
RECURSIVE ParsePairs(_, _, _)
ParseValue(toks, i) ==
    IF i > Len(toks) THEN ParseError
    ELSE LET tk == toks[i] IN
        IF tk.t = "null" THEN Parsed(PyNone, i + 1)
        ELSE IF tk.t = "int" THEN Parsed(PyInt(tk.v), i + 1)
        ELSE IF tk.t = "true" THEN Parsed(PyBool(1), i + 1)
        ELSE IF tk.t = "false" THEN Parsed(PyBool(0), i + 1)
        ELSE IF tk.t = "str" THEN Parsed(PyStr(tk.v), i + 1)
        ELSE IF IsPunct(tk, "[") THEN
            IF i + 1 <= Len(toks) /\ IsPunct(toks[i + 1], "]")
            THEN Parsed(PyList(<<>>), i + 2)
            ELSE ParseItems(toks, i + 1, <<>>)
        ELSE IF IsPunct(tk, "{") THEN
            IF i + 1 <= Len(toks) /\ IsPunct(toks[i + 1], "}")
            THEN Parsed(PyDict(<<>>), i + 2)
            ELSE ParsePairs(toks, i + 1, PyDict(<<>>))
        ELSE ParseError

ParseItems(toks, i, acc) ==
    LET r == ParseValue(toks, i) IN
    IF ~r.ok \/ r.next > Len(toks) THEN ParseError
    ELSE IF IsPunct(toks[r.next], ",")
        THEN ParseItems(toks, r.next + 1, Append(acc, r.val))
    ELSE IF IsPunct(toks[r.next], "]")
        THEN Parsed(PyList(Append(acc, r.val)), r.next + 1)
    ELSE ParseError

ParsePairs(toks, i, acc) ==
    IF i + 1 > Len(toks) \/ toks[i].t # "str" \/ ~IsPunct(toks[i + 1], ":")
    THEN ParseError
    ELSE LET r == ParseValue(toks, i + 2) IN
        IF ~r.ok \/ r.next > Len(toks) THEN ParseError
        ELSE IF IsPunct(toks[r.next], ",")
            THEN ParsePairs(toks, r.next + 1, Put(acc, toks[i].v, r.val))
        ELSE IF IsPunct(toks[r.next], "}")
            THEN Parsed(Put(acc, toks[i].v, r.val), r.next + 1)
        ELSE ParseError

\* json.load(file): one value and then the end of the file
json_load(toks) ==
    LET r == ParseValue(toks, 1) IN
    IF r.ok /\ r.next = Len(toks) + 1 THEN r ELSE ParseError

(***************************************************************************)
(* FileHandler.                                                            *)
(***************************************************************************)
Missing == [exists |-> FALSE, content |-> <<>>]

FileOf(toks) == [exists |-> TRUE, content |-> toks]

\* FileHandler.load_tasks: the elements of the list it returns
\* the isinstance test written against dict
load_tasks_DictOnly(f) ==
    IF ~f.exists THEN <<>>
    ELSE LET r == json_load(f.content) IN
        IF ~r.ok THEN <<>>
        ELSE IF r.val.k = "dict" THEN r.val.v ELSE <<>>

load_tasks(f) ==
    IF ~f.exists THEN <<>>
    ELSE LET r == json_load(f.content) IN
        IF ~r.ok THEN <<>>
        ELSE IF r.val.k = "list" THEN r.val.v ELSE <<>>

\* a write that stops before the closing bracket of the list
save_tasks_Truncated(ts) ==
    FileOf(SubSeq(json_dump(PyList(ts)), 1, Len(json_dump(PyList(ts))) - 1))

\* FileHandler.save_tasks: the file after json.dump(tasks, file)
save_tasks(ts) == FileOf(json_dump(PyList(ts)))

(***************************************************************************)
(* What the user can type at the prompts.                                  *)
(***************************************************************************)
Long21 == [i \in 1..(NameLimit + 1) |-> "a"]

\* at the name prompt of add_task
NameInputs == {<<>>, <<" ", "a", " ">>, <<"!">>, Long21}

\* at the description prompt of add_task
DescInputs == {<<>>, <<" ", "a", " ">>, <<"!">>}

\* at the name and description prompts of update_task: left empty, or a text
\* that add_task would reject
UpdateInputs == {<<>>, <<" ", "!">>}

IdInputs ==
    {<<c>> : c \in {d \in Digits : DigitValue(d) \in 2..MaxAdds}}
        \cup {<<"x">>, <<" ", "1", " ">>}

StatusInputs == {<<"0">>, <<"1">>, <<" ", "2">>, <<"3">>, <<>>}

(***************************************************************************)
(* The messages the operations print (without the interpolated name, id).  *)
(***************************************************************************)
MsgAdded == "Task added with Task ID."

MsgNoTasksToUpdate == "No tasks available to update."

MsgNoTasksToDelete == "No tasks available to delete."

MsgInvalidId == "Invalid Task ID. Please enter a valid number."

MsgNotFound == "Task ID not found."

MsgUpdated == "Task Updated Successfully."

MsgBadStatus == "Invalid status code! Please enter 0, 1, or 2."

MsgBadStatusInput == "Invalid input! Please enter a number (0-2)."

MsgNotCompleted == "Task cannot be deleted because it is not completed."

MsgDeleted == "Task ID deleted successfully."

(***************************************************************************)
(* TaskManager.                                                            *)
(***************************************************************************)
VARIABLES
    tasks,      \* self.tasks: the elements of the list
    file,       \* the backing file data/tasks.json
    out,        \* the message the last operation printed
    created,    \* history: the ids add_task has assigned, in order
    deleted,    \* history: TRUE once delete_task has removed a task
    pc          \* "menu" while ToDoApp.main loops, "exited" after exit()

vars == <<tasks, file, out, created, deleted, pc>>

TaskId(t) == Get(t, K_taskid).v

TaskName(t) == Get(t, K_taskname).v

TaskDescription(t) == Get(t, K_description).v

TaskStatus(t) == Get(t, K_status)

\* max(..., default=0)
RECURSIVE MaxOf(_, _)
MaxOf(ns, default) ==
    IF ns = <<>> THEN default
    ELSE LET m == MaxOf(Tail(ns), Head(ns)) IN
         IF Head(ns) >= m THEN Head(ns) ELSE m

Ids(ts) == [i \in 1..Len(ts) |-> TaskId(ts[i])]

\* get_next_task_id with default=1 in place of default=0
get_next_task_id_DefaultOne(ts) == MaxOf(Ids(ts), 1) + 1

\* get_next_task_id without the + 1
get_next_task_id_NoIncrement(ts) == MaxOf(Ids(ts), 0)

\* the next id taken from the number of tasks
get_next_task_id_Len(ts) == Len(ts) + 1

get_next_task_id(ts) == MaxOf(Ids(ts), 0) + 1

\* next((t for t in self.tasks if t["taskid"] == task_id), None):
\* the position of the first match, 0 for None
\* next(...) with the first task as the default in place of None
FindTask_DefaultFirst(ts, task_id) ==
    IF \E i \in 1..Len(ts) : TaskId(ts[i]) = task_id
    THEN CHOOSE i \in 1..Len(ts) :
            /\ TaskId(ts[i]) = task_id
            /\ \A j \in 1..(i - 1) : TaskId(ts[j]) # task_id
    ELSE 1

FindTask(ts, task_id) ==
    IF \E i \in 1..Len(ts) : TaskId(ts[i]) = task_id
    THEN CHOOSE i \in 1..Len(ts) :
            /\ TaskId(ts[i]) = task_id
            /\ \A j \in 1..(i - 1) : TaskId(ts[j]) # task_id
    ELSE 0

RemoveAt(ts, i) == SubSeq(ts, 1, i - 1) \o SubSeq(ts, i + 1, Len(ts))

\* list.pop(0) in place of list.remove(x)
ListRemove_PopFirst(ts, x) == Tail(ts)

\* list.remove(x): drops the first element equal to x
ListRemove(ts, x) ==
    RemoveAt(ts, CHOOSE i \in 1..Len(ts) :
                    /\ PyEq(ts[i], x)
                    /\ \A j \in 1..(i - 1) : ~PyEq(ts[j], x))

\* the new task written with "status": TaskStatus.PENDING
NewTask_Pending(task_id, taskname, description) ==
    PyDict(<< <<K_taskid, PyInt(task_id)>>,
              <<K_taskname, PyStr(taskname)>>,
              <<K_description, PyStr(description)>>,
              <<K_status, PyInt(PENDING)>> >>)

NewTask(task_id, taskname, description) ==
    PyDict(<< <<K_taskid, PyInt(task_id)>>,
              <<K_taskname, PyStr(taskname)>>,
              <<K_description, PyStr(description)>>,
              <<K_status, PyNone>> >>)

add_task(nameRaw, descRaw) ==
    LET taskname    == strip(nameRaw)
        description == strip(descRaw)
        task_id     == get_next_task_id(tasks)
    IN  /\ Len(tasks) < MaxTasks
        /\ Len(created) < MaxAdds
        /\ validate_input(taskname, TRUE, FALSE)
        /\ validate_input(description, FALSE, TRUE)
        /\ out' = MsgAdded
        /\ tasks' = Append(tasks, NewTask(task_id, taskname, description))
        /\ file' = save_tasks(tasks')
        /\ created' = Append(created, task_id)
        /\ UNCHANGED deleted

\* the range check written as 0 <= new_status <= 3
StatusCodes_UpToThree == 0..3

\* the list written without TaskStatus.PENDING
StatusCodes_NoPending == {IN_PROGRESS, COMPLETED}

\* [TaskStatus.PENDING, TaskStatus.IN_PROGRESS, TaskStatus.COMPLETED]
StatusCodes == {PENDING, IN_PROGRESS, COMPLETED}

\* the assignment without the test for an empty input
AssignIfGiven_Always(task, key, new_text) == Put(task, key, PyStr(new_text))

\* if new_text: task[key] = new_text
AssignIfGiven(task, key, new_text) ==
    IF new_text # <<>> THEN Put(task, key, PyStr(new_text)) ELSE task

\* The prompts after the task is found: the name, the description, the status
update_fields(i, nameRaw, descRaw, statusRaw) ==
    LET new_taskname    == strip(nameRaw)
        new_description == strip(descRaw)
        new_status      == int(strip(statusRaw))
        named     == AssignIfGiven(tasks[i], K_taskname, new_taskname)
        described == AssignIfGiven(named, K_description, new_description)
    IN  IF new_status.ok /\ new_status.val \in StatusCodes THEN
            /\ out' = MsgUpdated
            /\ tasks' = [tasks EXCEPT
                            ![i] = Put(described, K_status, PyInt(new_status.val))]
            /\ file' = save_tasks(tasks')
            /\ UNCHANGED <<created, deleted>>
        ELSE
            /\ out' = IF new_status.ok
                      THEN MsgBadStatus
                      ELSE MsgBadStatusInput
            /\ tasks' = [tasks EXCEPT ![i] = described]
            /\ UNCHANGED <<file, created, deleted>>

update_task(idRaw) ==
    LET id == int(strip(idRaw)) IN
    IF tasks = <<>> THEN
        /\ out' = MsgNoTasksToUpdate
        /\ UNCHANGED <<tasks, file, created, deleted>>
    ELSE IF ~id.ok THEN
        /\ out' = MsgInvalidId
        /\ UNCHANGED <<tasks, file, created, deleted>>
    ELSE IF FindTask(tasks, id.val) = 0 THEN
        /\ out' = MsgNotFound
        /\ UNCHANGED <<tasks, file, created, deleted>>
    ELSE
        \E n \in UpdateInputs, d \in UpdateInputs, s \in StatusInputs :
            update_fields(FindTask(tasks, id.val), n, d, s)

\* delete_task without the test of the status
NotCompleted_Never(task) == FALSE

\* the test written as task["status"] is None
NotCompleted_UnassignedOnly(task) == PyEq(TaskStatus(task), PyNone)

\* the test written as task["status"] == TaskStatus.PENDING
NotCompleted_Pending(task) == PyEq(TaskStatus(task), PyInt(PENDING))

\* task["status"] != TaskStatus.COMPLETED
NotCompleted(task) == ~PyEq(TaskStatus(task), PyInt(COMPLETED))

delete_task(idRaw) ==
    LET id == int(strip(idRaw)) IN
    IF tasks = <<>> THEN
        /\ out' = MsgNoTasksToDelete
        /\ UNCHANGED <<tasks, file, created, deleted>>
    ELSE IF ~id.ok THEN
        /\ out' = MsgInvalidId
        /\ UNCHANGED <<tasks, file, created, deleted>>
    ELSE IF FindTask(tasks, id.val) = 0 THEN
        /\ out' = MsgNotFound
        /\ UNCHANGED <<tasks, file, created, deleted>>
    ELSE IF NotCompleted(tasks[FindTask(tasks, id.val)]) THEN
        /\ out' = MsgNotCompleted
        /\ UNCHANGED <<tasks, file, created, deleted>>
    ELSE
        /\ out' = MsgDeleted
        /\ tasks' = ListRemove(tasks, tasks[FindTask(tasks, id.val)])
        /\ file' = save_tasks(tasks')
        /\ deleted' = TRUE
        /\ UNCHANGED created

\* The files a run can start from with nothing stored: no file, an empty file
\* and a file holding the empty list.
EmptyFiles == <<Missing, FileOf(<<>>), FileOf(<<Punct("["), Punct("]")>>)>>

\* TaskManager.__init__ on a store with nothing in it
Init ==
    /\ \E i \in 1..Len(EmptyFiles) : file = EmptyFiles[i]
    /\ tasks = load_tasks(file)
    /\ out = ""
    /\ created = <<>>
    /\ deleted = FALSE
    /\ pc = "menu"

\* The handlers return to the loop of ToDoApp.main, whatever they printed
AddTask ==
    /\ \E n \in NameInputs, d \in DescInputs : add_task(n, d)
    /\ UNCHANGED pc

UpdateTask ==
    /\ \E i \in IdInputs : update_task(i)
    /\ UNCHANGED pc

DeleteTask ==
    /\ \E i \in IdInputs : delete_task(i)
    /\ UNCHANGED pc

\* The runs of add, update and delete: the menu choices "1", "5" and "6"
Next == AddTask \/ UpdateTask \/ DeleteTask

Spec == Init /\ [][Next]_vars

(***************************************************************************)
(* ToDoApp.main: the menu loop with the views and the exit.                *)
(***************************************************************************)
MsgNoTasks == "No tasks available."

MsgOverall == "Overall Task List:"

MsgGroupedByName == "Tasks Grouped by Task Name:"

MsgGroupedByStatus == "Tasks Grouped by Status:"

MsgInvalidChoice == "Invalid choice!"

MsgExit == "Exiting the program. Have a great day!"

\* groups.setdefault(key, []).append(task) with the list replaced, not extended
SetDefaultAppend_Replace(groups, key, task) ==
    IF \E g \in 1..Len(groups) : PyEq(groups[g][1], key)
    THEN [g \in 1..Len(groups) |->
            IF PyEq(groups[g][1], key) THEN <<key, <<task>> >> ELSE groups[g]]
    ELSE Append(groups, <<key, <<task>> >>)

\* groups.setdefault(key, []).append(task) on an insertion-ordered dict, held
\* as the sequence of its <<key, tasks>> pairs
SetDefaultAppend(groups, key, task) ==
    IF \E g \in 1..Len(groups) : PyEq(groups[g][1], key)
    THEN [g \in 1..Len(groups) |->
            IF PyEq(groups[g][1], key)
            THEN <<groups[g][1], Append(groups[g][2], task)>>
            ELSE groups[g]]
    ELSE Append(groups, <<key, <<task>> >>)

\* for task in self.tasks: groups.setdefault(task[field], []).append(task)
RECURSIVE GroupLoop(_, _, _)
GroupLoop(ts, field, groups) ==
    IF ts = <<>> THEN groups
    ELSE GroupLoop(Tail(ts), field,
                   SetDefaultAppend(groups, Get(Head(ts), field), Head(ts)))

task_name_groups(ts) == GroupLoop(ts, K_taskname, <<>>)

status_groups(ts) == GroupLoop(ts, K_status, <<>>)

view_all_tasks ==
    /\ out' = IF tasks = <<>> THEN MsgNoTasks ELSE MsgOverall
    /\ UNCHANGED <<tasks, file, created, deleted>>

view_tasks_by_name ==
    /\ out' = IF tasks = <<>> THEN MsgNoTasks ELSE MsgGroupedByName
    /\ UNCHANGED <<tasks, file, created, deleted>>

view_tasks_by_status ==
    /\ out' = IF tasks = <<>> THEN MsgNoTasks ELSE MsgGroupedByStatus
    /\ UNCHANGED <<tasks, file, created, deleted>>

(***************************************************************************)
(* The views over the collections that adds and updates build.             *)
(***************************************************************************)
ViewNames == << <<"a">>, <<"b">> >>

ViewStatuses == <<PyNone, PyInt(PENDING), PyInt(IN_PROGRESS), PyInt(COMPLETED)>>

\* The collection after n adds (names nm) and updates of the status (st), the
\* last of them saved
InitView ==
    /\ \E n \in 0..MaxViewTasks :
          \E nm \in [1..n -> 1..Len(ViewNames)],
             st \in [1..n -> 1..Len(ViewStatuses)] :
              tasks = [i \in 1..n |->
                         Put(NewTask(i, ViewNames[nm[i]], <<"a">>),
                             K_status, ViewStatuses[st[i]])]
    /\ file = save_tasks(tasks)
    /\ out = ""
    /\ created = Ids(tasks)
    /\ deleted = FALSE
    /\ pc = "menu"

ViewAll == view_all_tasks /\ UNCHANGED pc

ViewByName == view_tasks_by_name /\ UNCHANGED pc

ViewByStatus == view_tasks_by_status /\ UNCHANGED pc

NextView == ViewAll \/ ViewByName \/ ViewByStatus

SpecView == InitView /\ [][NextView]_vars

ChoiceInputs ==
    {<<"1">>, <<" ", "2">>, <<"3">>, <<"4">>, <<"5">>, <<"6">>, <<"7">>,
     <<"8">>, <<>>}

\* options.get(choice, lambda: print("\nInvalid choice!"))
options_get(choice) ==
    CASE choice = <<"1">> -> "add_task"
      [] choice = <<"2">> -> "view_all_tasks"
      [] choice = <<"3">> -> "view_tasks_by_name"
      [] choice = <<"4">> -> "view_tasks_by_status"
      [] choice = <<"5">> -> "update_task"
      [] choice = <<"6">> -> "delete_task"
      [] choice = <<"7">> -> "exit"
      [] OTHER -> "invalid"

MsgTraceback == "Traceback (most recent call last):"

\* x[key] gives a value: x is a dict that has the key. On any other value of
\* a JSON file it raises TypeError, on a dict without the key KeyError.
Subscripts(x, key) == x.k = "dict" /\ HasKey(x, key)

\* dict.get(x) and dict.setdefault(x, ...) raise TypeError on a list or a dict
Hashable(x) == x.k \notin {"list", "dict"}

\* max(task["taskid"] for task in self.tasks) + 1 raises
get_next_task_id_raises(ts) ==
    \E i \in 1..Len(ts) :
        \/ ~Subscripts(ts[i], K_taskid)
        \/ Get(ts[i], K_taskid).k \notin {"int", "bool"}

\* next(t for t in self.tasks if t["taskid"] == task_id) raises: a task that
\* has no "taskid" comes before any task with this id
lookup_raises(ts, task_id) ==
    \E i \in 1..Len(ts) :
        /\ ~Subscripts(ts[i], K_taskid)
        /\ \A j \in 1..(i - 1) : ~PyEq(Get(ts[j], K_taskid), PyInt(task_id))

\* the rows and group keys that the three views build raise
view_raises(ts) ==
    \E i \in 1..Len(ts) :
        \/ \E key \in {K_taskid, K_taskname, K_description, K_status} :
              ~Subscripts(ts[i], key)
        \/ ~Hashable(Get(ts[i], K_taskname))
        \/ ~Hashable(Get(ts[i], K_status))

\* An exception that no except clause of the program matches ends main with
\* a traceback; every one above is raised before the collection is changed
Uncaught ==
    /\ out' = MsgTraceback
    /\ pc' = "crashed"
    /\ UNCHANGED <<tasks, file, created, deleted>>

call_add_task ==
    IF get_next_task_id_raises(tasks) THEN Uncaught ELSE AddTask

call_view(view) ==
    IF tasks # <<>> /\ view_raises(tasks) THEN Uncaught
    ELSE view /\ UNCHANGED pc

call_update_task ==
    \E i \in IdInputs :
        LET id == int(strip(i)) IN
        IF tasks # <<>> /\ id.ok /\ lookup_raises(tasks, id.val) THEN Uncaught
        ELSE update_task(i) /\ UNCHANGED pc

call_delete_task ==
    \E i \in IdInputs :
        LET id == int(strip(i)) IN
        IF /\ tasks # <<>>
           /\ id.ok
           /\ \/ lookup_raises(tasks, id.val)
              \/ /\ FindTask(tasks, id.val) # 0
                 /\ ~Subscripts(tasks[FindTask(tasks, id.val)], K_status)
        THEN Uncaught
        ELSE delete_task(i) /\ UNCHANGED pc

\* One pass of the while loop: read the choice and call what options gives.
\* A call that returns leaves the loop running; exit() ends the process.
main(choiceRaw) ==
    LET handler == options_get(strip(choiceRaw)) IN
    /\ pc = "menu"
    /\ CASE handler = "add_task" -> call_add_task
         [] handler = "view_all_tasks" -> call_view(view_all_tasks)
         [] handler = "view_tasks_by_name" -> call_view(view_tasks_by_name)
         [] handler = "view_tasks_by_status" -> call_view(view_tasks_by_status)
         [] handler = "update_task" -> call_update_task
         [] handler = "delete_task" -> call_delete_task
         [] handler = "exit" ->
              /\ out' = MsgExit
              /\ pc' = "exited"
              /\ UNCHANGED <<tasks, file, created, deleted>>
         [] handler = "invalid" ->
              /\ out' = MsgInvalidChoice
              /\ UNCHANGED <<tasks, file, created, deleted, pc>>

\* The stores a run of the program can find: no file, and files holding a
\* list of something other than tasks
StoreFiles ==
    <<Missing,
      FileOf(json_dump(PyList(<<PyInt(1)>>))),
      FileOf(json_dump(PyList(<<PyNone>>)))>>

\* ToDoApp.__init__ on one of the stores
InitMain ==
    /\ \E i \in 1..Len(StoreFiles) : file = StoreFiles[i]
    /\ tasks = load_tasks(file)
    /\ out = ""
    /\ created = <<>>
    /\ deleted = FALSE
    /\ pc = "menu"

MainLoop == \E c \in ChoiceInputs : main(c)

NextMain == MainLoop

SpecMain == InitMain /\ [][NextMain]_vars

(***************************************************************************)
(* TaskManager.__init__ over arbitrary backing files.                      *)
(***************************************************************************)
FileTokens ==
    <<Punct("["), Punct("]"), Punct("{"), Punct("}"), Punct(","), Punct(":"),
      TInt(1), TStr(<<"a">>), TNull>>

\* Files that save_tasks wrote, and files holding records that are not tasks
SampleFiles ==
    <<save_tasks(<<NewTask(1, <<"a">>, <<"a">>)>>),
      save_tasks(<<Put(NewTask(1, <<"a">>, <<"!">>), K_status, PyInt(COMPLETED)),
                   NewTask(2, <<"a">>, <<"a">>)>>),
      FileOf(json_dump(PyList(<<PyDict(<<>>)>>))),
      FileOf(json_dump(PyList(<<PyDict(<< <<K_taskid, PyInt(1)>> >>)>>))),
      FileOf(json_dump(PyDict(<< <<K_taskid, PyInt(1)>> >>)))>>

\* The file is missing, or holds up to MaxFileLen of FileTokens in any order,
\* or is one of SampleFiles.
InitLoad ==
    /\ \/ file = Missing
       \/ \E n \in 0..MaxFileLen : \E ix \in [1..n -> 1..Len(FileTokens)] :
             file = FileOf([i \in 1..n |-> FileTokens[ix[i]]])
       \/ \E i \in 1..Len(SampleFiles) : file = SampleFiles[i]
    /\ tasks = <<>>
    /\ out = "constructing"
    /\ created = <<>>
    /\ deleted = FALSE
    /\ pc = "menu"

\* self.tasks = FileHandler.load_tasks(self.filename)
Construct ==
    /\ out = "constructing"
    /\ tasks' = load_tasks(file)
    /\ out' = "constructed"
    /\ UNCHANGED <<file, created, deleted, pc>>

NextLoad == Construct

SpecLoad == InitLoad /\ [][NextLoad]_vars

(***************************************************************************)
(* Properties.                                                             *)
(***************************************************************************)
\* The position of the task an id input names, or 0 when it names no task of
\* the collection
Named(idRaw) ==
    LET id == int(strip(idRaw)) IN
    IF id.ok THEN FindTask(tasks, id.val) ELSE 0

IsCompleted(t) == TaskStatus(t) = PyInt(COMPLETED)

\* The backing file holds exactly the collection ts
Holds(f, ts) == f.exists /\ PyEq(PyList(load_tasks(f)), PyList(ts))

\* C1: the id add assigns differs from the id of every task created earlier
\* in the run, deleted ones included.
C1_IdsNeverReused ==
    \A i, j \in 1..Len(created) : i # j => created[i] # created[j]

\* C2: every task of the collection has a name of 1 to 20 letters, digits and
\* spaces and a non-empty description with at least one letter or digit.
C2_FieldsAlwaysValid ==
    \A i \in 1..Len(tasks) :
        /\ NameRegexMatches(TaskName(tasks[i]))
        /\ TaskDescription(tasks[i]) # <<>>
        /\ DescRegexFound(TaskDescription(tasks[i]))

\* C3: whenever add, update or delete has returned, the backing file equals
\* the in-memory collection.
C3_PersistedAfterEveryOperation ==
    out # "" => PyEq(PyList(load_tasks(file)), PyList(tasks))

\* C4: delete of an existing task that is not Completed fails and leaves the
\* collection and the backing file unchanged.
C4_DeleteNotCompletedFails ==
    [][\A idRaw \in IdInputs :
          (/\ delete_task(idRaw)
           /\ Named(idRaw) # 0
           /\ ~IsCompleted(tasks[Named(idRaw)]))
          => (/\ out' = MsgNotCompleted
              /\ tasks' = tasks
              /\ file' = file)]_vars

C4_Witness ==
    /\ out = MsgNotCompleted
    /\ \E i \in 1..Len(tasks) : ~IsCompleted(tasks[i])

C6_AddsCountUp ==
    ~deleted =>
        /\ \A k \in 1..Len(created) : created[k] = k
        /\ Ids(tasks) = created

C6_Witness == ~deleted /\ Len(created) >= 2 /\ Len(tasks) >= 2

\* Every id is positive and no two tasks have the same id
IdsPositiveUnique ==
    /\ \A i \in 1..Len(tasks) : TaskId(tasks[i]) > 0
    /\ \A i, j \in 1..Len(tasks) : i # j => TaskId(tasks[i]) # TaskId(tasks[j])

\* A step keeps the ids of the tasks that stay: the ids are as before, or one
\* more at the end, or one removed.
IdsKept ==
    LET a == Ids(tasks)
        b == Ids(tasks')
    IN  \/ b = a
        \/ Len(b) = Len(a) + 1 /\ SubSeq(b, 1, Len(a)) = a
        \/ \E i \in 1..Len(a) : b = RemoveAt(a, i)

\* C7: every id is a positive integer, ids are unique in the collection, no
\* step changes the id of a task that stays and update changes no id at all.
C7_IdsPositiveUniqueImmutable ==
    /\ []IdsPositiveUnique
    /\ [][/\ IdsKept
          /\ \A idRaw \in IdInputs : update_task(idRaw) => Ids(tasks') = Ids(tasks)
         ]_vars

C7_Witness ==
    /\ out = MsgUpdated
    /\ Len(tasks) = 2
    /\ \E i \in 1..2 : TaskName(tasks[i]) = <<"!">>

StatusDefined(t) ==
    \/ TaskStatus(t) = PyNone
    \/ TaskStatus(t).k = "int" /\ TaskStatus(t).v \in {PENDING, IN_PROGRESS, COMPLETED}

\* A step never takes a status back to Unassigned: a task that stays in place
\* keeps a set status set, and a removal leaves the other tasks as they were.
NeverUnassignedAgain ==
    IF Len(tasks') >= Len(tasks)
    THEN \A i \in 1..Len(tasks) :
            /\ TaskId(tasks'[i]) = TaskId(tasks[i])
            /\ TaskStatus(tasks[i]) # PyNone => TaskStatus(tasks'[i]) # PyNone
    ELSE \E i \in 1..Len(tasks) : tasks' = RemoveAt(tasks, i)

ValidStatusInput(statusRaw) ==
    /\ int(strip(statusRaw)).ok
    /\ int(strip(statusRaw)).val \in {PENDING, IN_PROGRESS, COMPLETED}

\* C8: a status is always Unassigned, Pending, InProgress or Completed; once
\* set it is never Unassigned again; an update whose status input is not one
\* of the three codes leaves every status as it was.
C8_StatusLifecycle ==
    /\ [](\A i \in 1..Len(tasks) : StatusDefined(tasks[i]))
    /\ [][/\ NeverUnassignedAgain
          /\ \A idRaw \in IdInputs :
                LET i == Named(idRaw) IN
                i # 0 =>
                  \A s \in StatusInputs :
                      ~ValidStatusInput(s) =>
                        \A n \in UpdateInputs, d \in UpdateInputs :
                            update_fields(i, n, d, s) =>
                                \A j \in 1..Len(tasks) :
                                    TaskStatus(tasks'[j]) = TaskStatus(tasks[j])
         ]_vars

C8_Witness ==
    /\ out \in {MsgBadStatus, MsgBadStatusInput}
    /\ \E i \in 1..Len(tasks) : TaskStatus(tasks[i]) # PyNone

\* C9: update of an existing task replaces the name, the description and the
\* status that were given (a status when it is one of the three codes) and
\* keeps the ones left empty; the task stays in its place and the other tasks
\* are unchanged.
C9_UpdateFrame ==
    [][\A idRaw \in IdInputs :
          LET i == Named(idRaw) IN
          i # 0 =>
            \A n \in UpdateInputs, d \in UpdateInputs, s \in StatusInputs :
                update_fields(i, n, d, s) =>
                    /\ Len(tasks') = Len(tasks)
                    /\ \A j \in 1..Len(tasks) : j # i => tasks'[j] = tasks[j]
                    /\ TaskId(tasks'[i]) = TaskId(tasks[i])
                    /\ TaskName(tasks'[i]) =
                          IF strip(n) = <<>> THEN TaskName(tasks[i]) ELSE strip(n)
                    /\ TaskDescription(tasks'[i]) =
                          IF strip(d) = <<>> THEN TaskDescription(tasks[i])
                          ELSE strip(d)
                    /\ TaskStatus(tasks'[i]) =
                          IF ValidStatusInput(s) THEN PyInt(int(strip(s)).val)
                          ELSE TaskStatus(tasks[i])
      ]_vars

C9_Witness ==
    /\ out = MsgUpdated
    /\ Len(tasks) = 2
    /\ TaskName(tasks[2]) = <<"!">>
    /\ TaskDescription(tasks[2]) = <<"a">>
    /\ TaskName(tasks[1]) = <<"a">>

IsTaskRecord(x) ==
    /\ x.k = "dict"
    /\ Len(x.v) = 4
    /\ HasKey(x, K_taskid) /\ Get(x, K_taskid).k = "int"
    /\ HasKey(x, K_taskname) /\ Get(x, K_taskname).k = "str"
    /\ HasKey(x, K_description) /\ Get(x, K_description).k = "str"
    /\ HasKey(x, K_status) /\ Get(x, K_status).k \in {"none", "int"}

\* The file holds a well-formed serialized list of task records
WellFormedTaskFile(f) ==
    /\ f.exists
    /\ json_load(f.content).ok
    /\ json_load(f.content).val.k = "list"
    /\ \A i \in 1..Len(json_load(f.content).val.v) :
          IsTaskRecord(json_load(f.content).val.v[i])

\* C10: load returns an empty collection whenever the file is missing or is
\* not a well-formed serialized list of task records.
C10_LoadEmptyUnlessTaskList ==
    (out = "constructed" /\ ~WellFormedTaskFile(file)) => tasks = <<>>

\* C11: for every collection a run of add, update and delete reaches, tasks
\* without a status included, loading the file that save writes gives the
\* collection back, field by field and in the same order.
C11_RoundTrip ==
    /\ save_tasks(tasks).exists
    /\ PyEq(PyList(load_tasks(save_tasks(tasks))), PyList(tasks))
    /\ Len(load_tasks(save_tasks(tasks))) = Len(tasks)
    /\ \A i \in 1..Len(tasks) :
          /\ PyEq(load_tasks(save_tasks(tasks))[i], tasks[i])
          /\ PyEq(TaskStatus(load_tasks(save_tasks(tasks))[i]), TaskStatus(tasks[i]))

C11_Witness ==
    /\ Len(tasks) = 2
    /\ PyEq(TaskStatus(tasks[1]), PyInt(COMPLETED))
    /\ PyEq(TaskStatus(tasks[2]), PyNone)
    /\ TaskName(tasks[2]) = <<"!">>
    /\ PyEq(PyList(load_tasks(save_tasks(tasks))), PyList(tasks))

\* The one task of the collection has id 1 and the status st
OnlyTaskOne(ts, st) ==
    /\ Len(ts) = 1
    /\ TaskId(ts[1]) = 1
    /\ PyEq(TaskStatus(ts[1]), st)

IdOne == <<" ", "1", " ">>

\* C12: from an empty store, add gives a task with id 1 and no status; update
\* of id 1 with code 1 makes it InProgress; delete of id 1 then fails and the
\* task stays; update of id 1 with code 2 makes it Completed; delete of id 1
\* then succeeds and leaves the collection empty.
C12_Scenario ==
    [][/\ (tasks = <<>> /\ created = <<>> /\ AddTask)
            => OnlyTaskOne(tasks', PyNone) /\ out' = MsgAdded
       /\ (/\ OnlyTaskOne(tasks, PyNone)
           /\ \E n \in UpdateInputs, d \in UpdateInputs :
                 update_fields(Named(IdOne), n, d, <<"1">>))
            => OnlyTaskOne(tasks', PyInt(IN_PROGRESS)) /\ out' = MsgUpdated
       /\ (OnlyTaskOne(tasks, PyInt(IN_PROGRESS)) /\ delete_task(IdOne))
            => /\ out' = MsgNotCompleted
               /\ tasks' = tasks
               /\ OnlyTaskOne(tasks', PyInt(IN_PROGRESS))
       /\ (/\ OnlyTaskOne(tasks, PyInt(IN_PROGRESS))
           /\ \E n \in UpdateInputs, d \in UpdateInputs :
                 update_fields(Named(IdOne), n, d, <<" ", "2">>))
            => OnlyTaskOne(tasks', PyInt(COMPLETED)) /\ out' = MsgUpdated
       /\ (OnlyTaskOne(tasks, PyInt(COMPLETED)) /\ delete_task(IdOne))
            => out' = MsgDeleted /\ tasks' = <<>>
      ]_vars

C12_Witness ==
    /\ tasks = <<>>
    /\ out = MsgDeleted
    /\ created = <<1>>

\* No task of the collection has the id that the input names
NamesAbsentId(idRaw) ==
    /\ int(strip(idRaw)).ok
    /\ \A j \in 1..Len(tasks) : TaskId(tasks[j]) # int(strip(idRaw)).val

\* C13: an update or a delete whose id input names no task of the collection
\* reports that the id was not found and leaves the collection and the
\* backing file as they were.
C13_AbsentIdNotFound ==
    [][\A idRaw \in IdInputs :
          (/\ tasks # <<>>
           /\ NamesAbsentId(idRaw)
           /\ (update_task(idRaw) \/ delete_task(idRaw)))
            => /\ out' = MsgNotFound
               /\ tasks' = tasks
               /\ file' = file
      ]_vars

C13_Witness ==
    /\ out = MsgNotFound
    /\ tasks # <<>>
    /\ \E idRaw \in IdInputs : NamesAbsentId(idRaw)

\* The task at position j before the step is in the collection after it
StaysIn(j) == \E k \in 1..Len(tasks') : TaskId(tasks'[k]) = TaskId(tasks[j])

\* C14: a task leaves the collection only by a delete of its id and only when
\* its status was Completed; add and update remove no task.
C14_LeavesOnlyByDeleteOfCompleted ==
    [][/\ \A j \in 1..Len(tasks) :
            ~StaysIn(j) =>
                /\ IsCompleted(tasks[j])
                /\ out' = MsgDeleted
                /\ \E idRaw \in IdInputs :
                      /\ int(strip(idRaw)).ok
                      /\ int(strip(idRaw)).val = TaskId(tasks[j])
                      /\ delete_task(idRaw)
       /\ (AddTask \/ UpdateTask) =>
            /\ Len(tasks') >= Len(tasks)
            /\ \A j \in 1..Len(tasks) : StaysIn(j)
      ]_vars

C14_Witness ==
    /\ deleted
    /\ out = MsgDeleted
    /\ Len(tasks) = 1
    /\ TaskId(tasks[1]) = 1
    /\ created = <<1, 2>>

\* C15: update of an existing task, whatever its status, with a target among
\* Pending, InProgress and Completed succeeds and sets the status to the
\* target; a Completed task can be moved back to Pending or InProgress, and
\* delete of a task that is not Completed fails.
C15_TransitionsUnrestricted ==
    [][\A idRaw \in IdInputs :
          LET i == Named(idRaw) IN
          i # 0 =>
            /\ \A s \in StatusInputs :
                  ValidStatusInput(s) =>
                    \A n \in UpdateInputs, d \in UpdateInputs :
                        update_fields(i, n, d, s) =>
                            /\ out' = MsgUpdated
                            /\ TaskStatus(tasks'[i]) = PyInt(int(strip(s)).val)
                            /\ int(strip(s)).val # COMPLETED
                                  => ~IsCompleted(tasks'[i])
            /\ (~IsCompleted(tasks[i]) /\ delete_task(idRaw)) =>
                  /\ out' = MsgNotCompleted
                  /\ tasks' = tasks
      ]_vars

\* Updates have set a Pending and an InProgress status and a delete has been
\* refused
C15_Witness ==
    /\ out = MsgNotCompleted
    /\ Len(tasks) = 2
    /\ PyEq(TaskStatus(tasks[1]), PyInt(PENDING))
    /\ PyEq(TaskStatus(tasks[2]), PyInt(IN_PROGRESS))

\* The greatest id of the collection, 0 when it is empty
GreatestId(ts) ==
    IF ts = <<>> THEN 0
    ELSE LET ids == {TaskId(ts[i]) : i \in 1..Len(ts)}
         IN  CHOOSE m \in ids : \A k \in ids : k <= m

Stored == load_tasks(file)

\* The file and the collection have the same ids and statuses in the same order
SameIdsAndStatuses ==
    /\ Len(Stored) = Len(tasks)
    /\ \A i \in 1..Len(tasks) :
          /\ TaskId(Stored[i]) = TaskId(tasks[i])
          /\ PyEq(TaskStatus(Stored[i]), TaskStatus(tasks[i]))

\* C19: between the operations of a run started from a missing or empty file,
\* the file (a missing one counting as empty) and the collection have the same
\* ids in the same order with the same statuses, so that they differ at most in
\* names and descriptions; an add, a successful delete or an update with a
\* valid status code leaves no difference.
C19_FileFollowsCollection ==
    /\ [](SameIdsAndStatuses)
    /\ [][out' \in {MsgAdded, MsgDeleted, MsgUpdated} => Holds(file', tasks')]_vars

\* An update without a valid status code has changed a name in memory only
C19_Witness ==
    /\ out = MsgBadStatus
    /\ Len(tasks) = 2
    /\ SameIdsAndStatuses
    /\ TaskName(tasks[2]) = <<"!">>
    /\ TaskName(Stored[2]) = <<"a">>
    /\ ~Holds(file, tasks)

\* C20: the ids of the collection are strictly ascending, so that the last
\* task has the greatest id and the next add assigns the last task's id + 1,
\* or 1 in an empty collection.
C20_IdsAscending ==
    /\ \A i, j \in 1..Len(tasks) : i < j => TaskId(tasks[i]) < TaskId(tasks[j])
    /\ tasks # <<>> => TaskId(tasks[Len(tasks)]) = GreatestId(tasks)
    /\ get_next_task_id(tasks) =
          IF tasks = <<>> THEN 1 ELSE TaskId(tasks[Len(tasks)]) + 1

C20_Witness ==
    /\ deleted
    /\ Len(tasks) = 1
    /\ TaskId(tasks[1]) = 2
    /\ get_next_task_id(tasks) = 3

\* The position in the collection of the task t, found by its id
PositionOf(t) == CHOOSE i \in 1..Len(tasks) : TaskId(tasks[i]) = TaskId(t)

\* The first position in the collection of a task whose field has the value key
FirstWith(field, key) ==
    CHOOSE i \in 1..Len(tasks) :
        /\ PyEq(Get(tasks[i], field), key)
        /\ \A j \in 1..(i - 1) : ~PyEq(Get(tasks[j], field), key)

\* groups is a partition of the collection by field: the keys are distinct,
\* a group holds tasks of its key only, every task is at exactly one place of
\* exactly one group, groups come in the order of the first task of each key
\* and the tasks of a group in the order of the collection
IsPartitionBy(groups, field) ==
    /\ \A g, h \in 1..Len(groups) : g # h => ~PyEq(groups[g][1], groups[h][1])
    /\ \A g \in 1..Len(groups) :
          /\ groups[g][2] # <<>>
          /\ \A k \in 1..Len(groups[g][2]) :
                /\ PyEq(Get(groups[g][2][k], field), groups[g][1])
                /\ \E i \in 1..Len(tasks) : PyEq(tasks[i], groups[g][2][k])
          /\ \A k, l \in 1..Len(groups[g][2]) :
                k < l => PositionOf(groups[g][2][k]) < PositionOf(groups[g][2][l])
    /\ \A i \in 1..Len(tasks) :
          /\ \E g \in 1..Len(groups) :
                /\ PyEq(groups[g][1], Get(tasks[i], field))
                /\ \E k \in 1..Len(groups[g][2]) : PyEq(groups[g][2][k], tasks[i])
          /\ Cardinality({p \in {<<g, k>> : g \in 1..Len(groups), k \in 1..MaxViewTasks + 1} :
                            /\ p[2] <= Len(groups[p[1]][2])
                            /\ PyEq(groups[p[1]][2][p[2]], tasks[i])}) = 1
    /\ \A g, h \in 1..Len(groups) :
          g < h => FirstWith(field, groups[g][1]) < FirstWith(field, groups[h][1])

\* C18: the groups by name and the groups by status are each a partition of
\* the collection, a task being in the group of its name (of its status, no
\* status included); groups are in the order of first appearance of their
\* key, tasks in a group in the order of the collection; the views leave the
\* collection as it was.
C18_GroupingIsPartition ==
    /\ [](/\ IsPartitionBy(task_name_groups(tasks), K_taskname)
          /\ IsPartitionBy(status_groups(tasks), K_status))
    /\ [][(ViewByName \/ ViewByStatus) => tasks' = tasks /\ file' = file]_vars

\* The view by name has printed the groups of a, b, a: the group of "a" with
\* tasks 1 and 3, then the group of "b" with task 2
C18_Witness ==
    /\ out = MsgGroupedByName
    /\ Len(tasks) = 3
    /\ TaskName(tasks[1]) = <<"a">>
    /\ TaskName(tasks[2]) = <<"b">>
    /\ TaskName(tasks[3]) = <<"a">>
    /\ Len(task_name_groups(tasks)) = 2
    /\ Len(task_name_groups(tasks)[1][2]) = 2
    /\ TaskId(task_name_groups(tasks)[1][2][2]) = 3
    /\ PyEq(TaskStatus(tasks[2]), PyNone)
    /\ Len(status_groups(tasks)) > 1

\* C16: the process leaves the menu loop only by the exit choice: after each
\* report of a failure the loop is at the menu again and takes the next
\* choice, and the process has ended only where the exit message was printed.
C16_OnlyExitEndsTheLoop ==
    /\ pc \in {"menu", "exited"}
    /\ pc = "exited" <=> out = MsgExit
    /\ out \in {MsgInvalidChoice, MsgInvalidId, MsgNotFound, MsgBadStatus,
                MsgBadStatusInput, MsgNotCompleted, MsgNoTasks,
                MsgNoTasksToUpdate, MsgNoTasksToDelete}
          => pc = "menu" /\ ENABLED MainLoop

=============================================================================
